---- MODULE Spec2Model ----
(***************************************************************************)
(* The k-core hierarchy tree of kcore_tree.py.                             *)
(*                                                                         *)
(* A graph is a record [n, edges, index]: vertex ids 0..n-1 (igraph's      *)
(* contiguous numbering), a set of undirected edges {u, v} (simple graphs: *)
(* no loops, no multi-edges), and the '_index' vertex attribute.           *)
(* Python lists are sequences; dict/defaultdict are functions whose domain *)
(* grows on first access.                                                  *)
(***************************************************************************)
EXTENDS Integers, Sequences, FiniteSets, TLC

VARIABLES
    g,            \* the argument of kcore_tree
    pc,           \* position in kcore_tree / component_lists_to_blocks
    coreness,     \* build_vertex_sets: coreness list (vertex id -> k)
    kpos,         \* build_vertex_sets: position in sorted(set(coreness))
    components,   \* the OrderedDict, as a sequence of [k, cs] in insertion order
    lvl,          \* component_lists_to_blocks: position in components_dict.items()
    cidx,         \* component_lists_to_blocks: position in cs
    index,        \* component_lists_to_blocks: next block index
    ancestries,   \* component_lists_to_blocks: defaultdict(list)
    blocks,       \* component_lists_to_blocks: list of Block
    hier          \* blocks_to_hierarchy: the igraph.Graph built

vars == <<g, pc, coreness, kpos, components, lvl, cidx, index, ancestries, blocks, hier>>

\* Largest number of vertices of the exhaustively enumerated input graphs.
MaxN == 4

\* Python's None (block indices are >= 0).
None == -1

----------------------------------------------------------------------------
\* Generic helpers.

Min(S) == CHOOSE x \in S : \A y \in S : x <= y

Max(S) == CHOOSE x \in S : \A y \in S : x >= y

Range(s) == {s[i] : i \in 1..Len(s)}

\* sorted(S): the ascending list of the elements of a set of integers.
RECURSIVE Sorted(_)
Sorted(S) == IF S = {} THEN <<>> ELSE <<Min(S)>> \o Sorted(S \ {Min(S)})

----------------------------------------------------------------------------
\* The graph engine (igraph) as the program uses it.

Vertices(gr) == 0..(gr.n - 1)

Neighbors(gr, v) == {u \in Vertices(gr) : {u, v} \in gr.edges}

\* The degree of v inside the subgraph induced by S.
DegreeIn(gr, v, S) == Cardinality(Neighbors(gr, v) \cap S)

\* The k-core: peel vertices of degree < k until none is left.
RECURSIVE KCore(_, _, _)
KCore(gr, k, S) ==
    LET low == {v \in S : DegreeIn(gr, v, S) < k}
    IN  IF low = {} THEN S ELSE KCore(gr, k, S \ low)

\* g.coreness(): for each vertex the largest k whose k-core holds it.
Coreness(gr) ==
    [v \in Vertices(gr) |->
        Max({k \in 0..gr.n : v \in KCore(gr, k, Vertices(gr))})]

\* g.induced_subgraph(vs): vertices renumbered 0..len(vs)-1 in the order of
\* vs, edges with both ends in vs, vertex attributes carried over.
InducedSubgraph(gr, vs) ==
    [n     |-> Len(vs),
     edges |-> {{i - 1, j - 1} : <<i, j>> \in
                   {p \in (1..Len(vs)) \X (1..Len(vs)) :
                       p[1] < p[2] /\ {vs[p[1]], vs[p[2]]} \in gr.edges}},
     index |-> [i \in 0..(Len(vs) - 1) |-> gr.index[vs[i + 1]]]]

\* The vertices reachable from the set S.
RECURSIVE Reach(_, _)
Reach(gr, S) ==
    LET more == (UNION {Neighbors(gr, v) : v \in S}) \ S
    IN  IF more = {} THEN S ELSE Reach(gr, S \cup more)

\* gs.components(igraph.WEAK): the clusters in order of their smallest
\* vertex, each listing its members in ascending vertex order.
RECURSIVE ComponentsFrom(_, _)
ComponentsFrom(gr, unvisited) ==
    IF unvisited = {} THEN <<>>
    ELSE LET c == Reach(gr, {Min(unvisited)})
         IN  <<Sorted(c)>> \o ComponentsFrom(gr, unvisited \ c)

WeakComponents(gr) == ComponentsFrom(gr, Vertices(gr))

----------------------------------------------------------------------------
\* kcore_tree.py

\* kcore_tree, lines 27-29: v['_index'] = v.index on a copy of g.
PreserveIndices(gr) == [gr EXCEPT !.index = [v \in Vertices(gr) |-> v]]

\* Mutant of FilterVertices: a strict comparison, coreness[i] > k.
FilterStrict(k, cn) == Sorted({i \in DOMAIN cn : cn[i] > k})

\* __filter_vertices(k, coreness)
FilterVertices(k, cn) == Sorted({i \in DOMAIN cn : cn[i] >= k})

\* Mutant of ComponentIndices: v.index, the numbering local to the
\* subgraph, in place of v['_index'].
ComponentLocalIndex(gs, component) == [i \in 1..Len(component) |-> i - 1]

\* The '_index' values of the subgraph induced by one component.
ComponentIndices(gs, component) ==
    LET component_vs == InducedSubgraph(gs, component)
    IN  [i \in 1..Len(component) |-> component_vs.index[i - 1]]

\* induced_components(g, vs)
InducedComponents(gr, vs) ==
    LET gs == InducedSubgraph(gr, vs)
        cl == WeakComponents(gs)
    IN  [i \in 1..Len(cl) |-> ComponentIndices(gs, cl[i])]

\* Mutant of LevelSeq: the levels in descending order.
RECURSIVE SortedDescending(_)
SortedDescending(S) ==
    IF S = {} THEN <<>> ELSE <<Max(S)>> \o SortedDescending(S \ {Max(S)})

LevelSeqDescending(cn) == SortedDescending({cn[i] : i \in DOMAIN cn})

\* sorted(set(coreness))
LevelSeq(cn) == Sorted({cn[i] : i \in DOMAIN cn})

\* Mutant of LevelComponents: every level takes the branch of k = 0.
LevelCollapsed(gr, k, cn) == <<FilterVertices(k, cn)>>

\* One iteration of the loop of build_vertex_sets: components[k].
LevelComponents(gr, k, cn) ==
    LET vset == FilterVertices(k, cn)
    IN  IF k > 0 THEN InducedComponents(gr, vset) ELSE <<vset>>

\* defaultdict(list) lookup.
Ancestry(anc, v) == IF v \in DOMAIN anc THEN anc[v] ELSE <<>>

\* Mutant of ScanVertices: the index is appended before the parent is read.
RECURSIVE ScanAppendFirst(_, _, _, _, _)
ScanAppendFirst(vs, i, parent, anc, idx) ==
    IF i > Len(vs) THEN [parent |-> parent, ancestries |-> anc]
    ELSE LET v  == vs[i]
             h  == Append(Ancestry(anc, v), idx)
             p  == IF parent = None /\ h /= <<>> THEN h[Len(h)] ELSE parent
             a2 == [u \in DOMAIN anc \cup {v} |-> IF u = v THEN h ELSE anc[u]]
         IN  ScanAppendFirst(vs, i + 1, p, a2, idx)

\* Mutant of ScanVertices: the loop breaks at the vertex that gives the parent.
RECURSIVE ScanBreakOnParent(_, _, _, _, _)
ScanBreakOnParent(vs, i, parent, anc, idx) ==
    IF i > Len(vs) THEN [parent |-> parent, ancestries |-> anc]
    ELSE LET v  == vs[i]
             h  == Ancestry(anc, v)
             a2 == [u \in DOMAIN anc \cup {v} |->
                       IF u = v THEN Append(h, idx) ELSE anc[u]]
         IN  IF h /= <<>> THEN [parent |-> h[Len(h)], ancestries |-> anc]
             ELSE ScanBreakOnParent(vs, i + 1, parent, a2, idx)

\* The loop `for v in vs` of component_lists_to_blocks, from position i with
\* the parent found so far: the final parent and ancestries.
RECURSIVE ScanVertices(_, _, _, _, _)
ScanVertices(vs, i, parent, anc, idx) ==
    IF i > Len(vs) THEN [parent |-> parent, ancestries |-> anc]
    ELSE LET v  == vs[i]
             h  == Ancestry(anc, v)
             p  == IF parent = None /\ h /= <<>> THEN h[Len(h)] ELSE parent
             a2 == [u \in DOMAIN anc \cup {v} |->
                       IF u = v THEN Append(h, idx) ELSE anc[u]]
         IN  ScanVertices(vs, i + 1, p, a2, idx)

\* Block(idx=index, parent=parent, vertices=vs, klevel=k, kconn=k)
Block(idx, parent, vs, k) ==
    [idx |-> idx, parent |-> parent, vertices |-> vs, klevel |-> k, kconn |-> k]

\* Mutant of NextIndex: the index is not advanced.
NextIndexStuck(idx) == idx

\* index += 1
NextIndex(idx) == idx + 1

\* Mutant of HierEdges: an edge for every block, the parent not tested.
RECURSIVE HierEdgesAll(_)
HierEdgesAll(bs) ==
    IF bs = <<>> THEN <<>>
    ELSE Append(HierEdgesAll(SubSeq(bs, 1, Len(bs) - 1)),
                <<bs[Len(bs)].parent, bs[Len(bs)].idx>>)

\* blocks_to_hierarchy: idxs holds one element per block (blk.index, the
\* tuple method, not blk.idx), and add_vertices with a list adds one vertex
\* per element, so the vertices have the ids 0..len(blocks)-1;
\* add_edge(blk.parent, blk.idx) for every block with a parent, in block order.
RECURSIVE HierEdges(_)
HierEdges(bs) ==
    IF bs = <<>> THEN <<>>
    ELSE LET blk == bs[Len(bs)]
             init == HierEdges(SubSeq(bs, 1, Len(bs) - 1))
         IN  IF blk.parent /= None THEN Append(init, <<blk.parent, blk.idx>>)
             ELSE init

BlocksToHierarchyGraph(bs) == [n |-> Len(bs), edges |-> HierEdges(bs)]

EmptyHier == [n |-> 0, edges |-> <<>>]

EmptyMap == [v \in {} |-> <<>>]

----------------------------------------------------------------------------
\* Inputs.

Pairs(n) == {{u, v} : <<u, v>> \in {p \in (0..(n - 1)) \X (0..(n - 1)) : p[1] < p[2]}}

Graph(n, es) == [n |-> n, edges |-> es, index |-> [v \in {} |-> 0]]

\* Every simple undirected graph on at most MaxN vertices.
SmallGraphs == UNION {{Graph(n, es) : es \in SUBSET Pairs(n)} : n \in 0..MaxN}

\* A triangle on {0,1,2} with the pendant path 2-3-4.
TrianglePath == Graph(5, {{0, 1}, {0, 2}, {1, 2}, {2, 3}, {3, 4}})

\* Two disjoint triangles.
TwoTriangles == Graph(6, {{0, 1}, {0, 2}, {1, 2}, {3, 4}, {3, 5}, {4, 5}})

\* K4 on {0,1,2,3}, the pendant vertex 4 on 3, the isolated vertex 5.
NestedK4 ==
    Graph(6, {{0, 1}, {0, 2}, {0, 3}, {1, 2}, {1, 3}, {2, 3}, {3, 4}})

\* Two disjoint triangles and the isolated vertex 6.
TwoTrianglesOneIsolated ==
    Graph(7, {{0, 1}, {0, 2}, {1, 2}, {3, 4}, {3, 5}, {4, 5}})

\* K4 on {0,1,2,3} and K4 on {4,5,6,7}, joined through vertex 8 (edges 0-8
\* and 4-8): one 2-core holding two 3-cores.
TwoK4Bridge ==
    Graph(9, {{0, 1}, {0, 2}, {0, 3}, {1, 2}, {1, 3}, {2, 3},
              {4, 5}, {4, 6}, {4, 7}, {5, 6}, {5, 7}, {6, 7},
              {0, 8}, {4, 8}})

\* The edge 0-1 and the triangle {2,3,4}.
EdgeAndTriangle == Graph(5, {{0, 1}, {2, 3}, {2, 4}, {3, 4}})

ScenarioGraphs ==
    {TrianglePath, TwoTriangles, NestedK4, TwoTrianglesOneIsolated, TwoK4Bridge,
     EdgeAndTriangle}

----------------------------------------------------------------------------
\* kcore_tree(g) as a state machine.

Init ==
    /\ g \in SmallGraphs \cup ScenarioGraphs
    /\ pc = "start"
    /\ coreness = [v \in {} |-> 0]
    /\ kpos = 1
    /\ components = <<>>
    /\ lvl = 1
    /\ cidx = 1
    /\ index = 0
    /\ ancestries = EmptyMap
    /\ blocks = <<>>
    /\ hier = EmptyHier

\* kcore_tree lines 27-32 and build_vertex_sets lines 52-53.
CallBuildVertexSets ==
    /\ pc = "start"
    /\ coreness' = Coreness(PreserveIndices(g))
    /\ components' = <<>>
    /\ kpos' = 1
    /\ pc' = "levels"
    /\ UNCHANGED <<g, lvl, cidx, index, ancestries, blocks, hier>>

\* build_vertex_sets lines 55-62: one iteration of the loop over the levels.
FindLevel ==
    /\ pc = "levels"
    /\ kpos <= Len(LevelSeq(coreness))
    /\ LET k == LevelSeq(coreness)[kpos]
       IN  components' = Append(components,
               [k |-> k, cs |-> LevelComponents(PreserveIndices(g), k, coreness)])
    /\ kpos' = kpos + 1
    /\ UNCHANGED <<g, pc, coreness, lvl, cidx, index, ancestries, blocks, hier>>

\* build_vertex_sets line 63, kcore_tree line 35, component_lists_to_blocks
\* lines 105-107.
CallComponentListsToBlocks ==
    /\ pc = "levels"
    /\ kpos > Len(LevelSeq(coreness))
    /\ index' = 0
    /\ ancestries' = EmptyMap
    /\ blocks' = <<>>
    /\ lvl' = 1
    /\ cidx' = 1
    /\ pc' = "blocks"
    /\ UNCHANGED <<g, coreness, kpos, components, hier>>

\* component_lists_to_blocks lines 109-121: one component becomes a block.
MakeBlock ==
    /\ pc = "blocks"
    /\ lvl <= Len(components)
    /\ cidx <= Len(components[lvl].cs)
    /\ LET k  == components[lvl].k
           vs == components[lvl].cs[cidx]
           r  == ScanVertices(vs, 1, None, ancestries, index)
       IN  /\ ancestries' = r.ancestries
           /\ blocks' = Append(blocks, Block(index, r.parent, vs, k))
    /\ index' = NextIndex(index)
    /\ cidx' = cidx + 1
    /\ UNCHANGED <<g, pc, coreness, kpos, components, lvl, hier>>

\* component_lists_to_blocks line 108: the next item of components_dict.
NextLevel ==
    /\ pc = "blocks"
    /\ lvl <= Len(components)
    /\ cidx > Len(components[lvl].cs)
    /\ lvl' = lvl + 1
    /\ cidx' = 1
    /\ UNCHANGED <<g, pc, coreness, kpos, components, index, ancestries, blocks, hier>>

\* component_lists_to_blocks line 123.
ReturnBlocks ==
    /\ pc = "blocks"
    /\ lvl > Len(components)
    /\ pc' = "returned"
    /\ UNCHANGED <<g, coreness, kpos, components, lvl, cidx, index, ancestries, blocks, hier>>

\* kcore_tree lines 38-40 and blocks_to_hierarchy.
BlocksToHierarchy ==
    /\ pc = "returned"
    /\ hier' = BlocksToHierarchyGraph(blocks)
    /\ pc' = "done"
    /\ UNCHANGED <<g, coreness, kpos, components, lvl, cidx, index, ancestries, blocks>>

Next ==
    \/ CallBuildVertexSets
    \/ FindLevel
    \/ CallComponentListsToBlocks
    \/ MakeBlock
    \/ NextLevel
    \/ ReturnBlocks
    \/ BlocksToHierarchy

Spec == Init /\ [][Next]_vars

----------------------------------------------------------------------------
\* component_lists_to_blocks(components_dict) called on its own, with any
\* components_dict: levels 1, 2, ... in ascending order, each with a list of
\* components, each component a duplicate-free list of vertex ids.

\* Number of vertex ids of the direct inputs.
RawN == 2

\* Largest number of levels, and of components of a level, of the direct inputs.
MaxRawLen == 2

SeqsUpTo(S, n) == UNION {[1..m -> S] : m \in 0..n}

RawComponents ==
    {vs \in SeqsUpTo(0..(RawN - 1), RawN) :
        Len(vs) > 0 /\ Cardinality(Range(vs)) = Len(vs)}

RawLists == {cs \in SeqsUpTo(RawComponents, MaxRawLen) : Len(cs) > 0}

RawDicts ==
    {[i \in 1..Len(d) |-> [k |-> i, cs |-> d[i]]] : d \in SeqsUpTo(RawLists, MaxRawLen)}

InitRaw ==
    /\ g = Graph(0, {})
    /\ pc = "blocks"
    /\ coreness = [v \in {} |-> 0]
    /\ kpos = 1
    /\ components \in RawDicts
    /\ lvl = 1
    /\ cidx = 1
    /\ index = 0
    /\ ancestries = EmptyMap
    /\ blocks = <<>>
    /\ hier = EmptyHier

NextRaw ==
    \/ MakeBlock
    \/ NextLevel
    \/ ReturnBlocks

SpecRaw == InitRaw /\ [][NextRaw]_vars

----------------------------------------------------------------------------
\* Vocabulary of the properties.

VS(b) == Range(b.vertices)

BlockIds == 1..Len(blocks)

\* S_k = {v : coreness(v) >= k}
CoreSet(k) == {v \in DOMAIN coreness : coreness[v] >= k}

Levels == {coreness[v] : v \in DOMAIN coreness}

\* The blocks were returned by component_lists_to_blocks.
Returned == pc \in {"returned", "done"}

\* A component is waiting to be made a block.
Pending ==
    /\ pc = "blocks"
    /\ lvl <= Len(components)
    /\ cidx <= Len(components[lvl].cs)

PendingComponent == components[lvl].cs[cidx]

\* The last entries of the non-empty histories of the members of vs.
LastEntries(vs) ==
    {Ancestry(ancestries, v)[Len(Ancestry(ancestries, v))] :
        v \in {u \in Range(vs) : Ancestry(ancestries, u) /= <<>>}}

\* C is a maximal connected vertex set of the subgraph of gr induced by S:
\* no edge leaves C inside S, and no proper part of C is cut off from the rest.
IsWeakComponent(gr, C, S) ==
    /\ C /= {}
    /\ C \subseteq S
    /\ \A e \in gr.edges : e \subseteq S /\ e \cap C /= {} => e \subseteq C
    /\ \A D \in SUBSET C :
          D /= {} /\ D /= C => \E e \in gr.edges : e \cap D /= {} /\ e \cap (C \ D) /= {}

\* The (level, component) pairs of components, in order.
RECURSIVE Flatten(_)
Flatten(cd) ==
    IF cd = <<>> THEN <<>>
    ELSE LET last == cd[Len(cd)]
         IN  Flatten(SubSeq(cd, 1, Len(cd) - 1)) \o
             [i \in 1..Len(last.cs) |-> [k |-> last.k, vs |-> last.cs[i]]]

\* The ids of the blocks created so far that contain v, in creation order.
RECURSIVE IdsContaining(_, _)
IdsContaining(bs, v) ==
    IF bs = <<>> THEN <<>>
    ELSE LET init == IdsContaining(SubSeq(bs, 1, Len(bs) - 1), v)
         IN  IF v \in VS(bs[Len(bs)]) THEN Append(init, bs[Len(bs)].idx) ELSE init

\* vs with its first and its i-th entry exchanged.
SwapFirst(vs, i) ==
    [j \in 1..Len(vs) |-> IF j = 1 THEN vs[i] ELSE IF j = i THEN vs[1] ELSE vs[j]]

----------------------------------------------------------------------------
\* Properties of kcore_tree.

\* C1 (nesting): every block B with a parent has exactly one block P with
\* P.idx = B.parent, every vertex of B is a vertex of P, and
\* klevel(B) > klevel(P).
C1_Nesting ==
    \A i \in BlockIds :
        blocks[i].parent /= None =>
            /\ Cardinality({j \in BlockIds : blocks[j].idx = blocks[i].parent}) = 1
            /\ \A j \in BlockIds :
                  blocks[j].idx = blocks[i].parent =>
                      /\ VS(blocks[i]) \subseteq VS(blocks[j])
                      /\ blocks[i].klevel > blocks[j].klevel

\* kcore_tree has returned a chain of three nested blocks, the inner ones
\* strictly smaller than their parents.
C1_Witness ==
    /\ pc = "done"
    /\ \E i, j, m \in BlockIds :
          /\ blocks[i].parent = blocks[j].idx
          /\ blocks[j].parent = blocks[m].idx
          /\ VS(blocks[i]) /= VS(blocks[j])
          /\ VS(blocks[j]) /= VS(blocks[m])

\* C2 (level partition): once the blocks are returned, for every level k of
\* the distinct coreness values the blocks of klevel k are pairwise disjoint,
\* list no vertex twice, and their union is {v : coreness(v) >= k}; no block
\* has a klevel outside the level sequence.
C2_LevelPartition ==
    Returned =>
        /\ \A i \in BlockIds : blocks[i].klevel \in Levels
        /\ \A i \in BlockIds : Cardinality(VS(blocks[i])) = Len(blocks[i].vertices)
        /\ \A k \in Levels :
              LET at == {i \in BlockIds : blocks[i].klevel = k}
              IN  /\ \A i, j \in at : i /= j => VS(blocks[i]) \cap VS(blocks[j]) = {}
                  /\ UNION {VS(blocks[i]) : i \in at} = CoreSet(k)

\* The returned blocks have a level with two blocks and a higher level whose
\* core set is a proper part of the vertices.
C2_Witness ==
    /\ pc = "done"
    /\ \E i, j, m \in BlockIds :
          /\ i /= j
          /\ blocks[i].klevel = blocks[j].klevel
          /\ blocks[m].klevel > blocks[i].klevel
          /\ CoreSet(blocks[m].klevel) /= Vertices(g)
          /\ CoreSet(blocks[i].klevel) /= CoreSet(blocks[m].klevel)

\* C3 (genuine components): at every level k that build_vertex_sets has
\* processed, the minimum level and level 0 included, every reported
\* component is a maximal weakly-connected component of the subgraph induced
\* by S_k.
C3_GenuineComponents ==
    \A i \in 1..Len(components) :
        \A c \in 1..Len(components[i].cs) :
            IsWeakComponent(g, Range(components[i].cs[c]), CoreSet(components[i].k))

\* C4 (coverage): for a non-empty graph the root blocks are the blocks of
\* the minimum level, they are pairwise disjoint and their union is the full
\* vertex set.
C4_RootCoverage ==
    (pc = "done" /\ g.n > 0) =>
        LET roots == {i \in BlockIds : blocks[i].parent = None}
        IN  /\ roots = {i \in BlockIds : blocks[i].klevel = Min(Levels)}
            /\ UNION {VS(blocks[i]) : i \in roots} = Vertices(g)
            /\ \A i, j \in roots : i /= j => VS(blocks[i]) \cap VS(blocks[j]) = {}
            /\ \A v \in Vertices(g) :
                  Cardinality({i \in roots : v \in VS(blocks[i])}) = 1

\* The forest returned has two roots and a block that is not a root.
C4_Witness ==
    /\ pc = "done"
    /\ Cardinality({i \in BlockIds : blocks[i].parent = None}) >= 2
    /\ \E i \in BlockIds : blocks[i].parent /= None

\* C5 (block ids): the i-th block has idx = i - 1; the blocks created so far
\* are, in order, the first (level, component) pairs of the component
\* lists, and all of them once the blocks are returned; the levels of the
\* component lists are strictly ascending, so a block of a lower level has
\* a smaller idx.
C5_SequentialIds ==
    /\ \A i \in BlockIds : blocks[i].idx = i - 1
    /\ index = Len(blocks)
    /\ \A i, j \in 1..Len(components) : i < j => components[i].k < components[j].k
    /\ \A i, j \in BlockIds :
          blocks[i].klevel < blocks[j].klevel => blocks[i].idx < blocks[j].idx
    /\ pc \in {"blocks", "returned", "done"} =>
          /\ Len(blocks) <= Len(Flatten(components))
          /\ \A i \in BlockIds :
                /\ blocks[i].klevel = Flatten(components)[i].k
                /\ blocks[i].vertices = Flatten(components)[i].vs
    /\ Returned => Len(blocks) = Len(Flatten(components))

\* Blocks were returned for two levels, one of them with two components.
C5_Witness ==
    /\ pc = "returned"
    /\ Len(blocks) >= 3
    /\ \E i \in 1..Len(components) : Len(components[i].cs) >= 2
    /\ Len(components) >= 2

\* The members of the pending component have two different most-recent
\* ancestors.
ConflictPending == Pending /\ Cardinality(LastEntries(PendingComponent)) >= 2

\* C6 (fatal on conflicting ancestors): a component whose members have two
\* or more distinct most-recent ancestors is never made a block, and no
\* block list is returned after it.
C6_ConflictIsFatal ==
    [][ConflictPending => (blocks' = blocks /\ pc' /= "returned")]_vars

\* C7 as stated (two disjoint triangles): two root blocks, one per triangle,
\* each with a level-2 child block holding that triangle.
C7_TwoRootsWithChildren ==
    (g = TwoTriangles /\ pc = "done") =>
        \A t \in {{0, 1, 2}, {3, 4, 5}} :
            \E r, c \in BlockIds :
                /\ blocks[r].parent = None
                /\ VS(blocks[r]) = t
                /\ blocks[c].parent = blocks[r].idx
                /\ blocks[c].klevel = 2
                /\ VS(blocks[c]) = t

\* C7 amended (two disjoint triangles): exactly two blocks, both roots of
\* level 2, one per triangle, and a hierarchy of two nodes without edges.
C7_TwoRootsOnly ==
    (g = TwoTriangles /\ pc = "done") =>
        /\ blocks = <<Block(0, None, <<0, 1, 2>>, 2), Block(1, None, <<3, 4, 5>>, 2)>>
        /\ hier = [n |-> 2, edges |-> <<>>]

\* kcore_tree has returned for the two disjoint triangles.
C7_Witness == g = TwoTriangles /\ pc = "done" /\ Len(blocks) = 2

\* C8 (triangle with pendant path): exactly block 0 (root, {0,1,2,3,4},
\* level 1) and block 1 (parent 0, {0,1,2}, level 2); the hierarchy has two
\* nodes and the single edge between 0 and 1.
C8_TrianglePath ==
    (g = TrianglePath /\ pc = "done") =>
        /\ blocks = <<Block(0, None, <<0, 1, 2, 3, 4>>, 1), Block(1, 0, <<0, 1, 2>>, 2)>>
        /\ hier = [n |-> 2, edges |-> <<<<0, 1>>>>]

\* kcore_tree has returned for the triangle with the pendant path.
C8_Witness == g = TrianglePath /\ pc = "done" /\ hier.n = 2

\* C9 (agreed ancestor): the members of a pending component either all have
\* an empty history or all have a non-empty history with one last entry;
\* whichever member is scanned first, the parent found is the same; and the
\* entry before a block's id in the history of each of its vertices is the
\* block's parent.
C9_AgreedAncestor ==
    /\ Pending =>
          LET vs == PendingComponent
          IN  /\ \/ \A v \in Range(vs) : Ancestry(ancestries, v) = <<>>
                 \/ /\ \A v \in Range(vs) : Ancestry(ancestries, v) /= <<>>
                    /\ Cardinality(LastEntries(vs)) = 1
              /\ \A i \in 1..Len(vs) :
                    ScanVertices(SwapFirst(vs, i), 1, None, ancestries, index).parent
                        = ScanVertices(vs, 1, None, ancestries, index).parent
    /\ \A i \in BlockIds : \A v \in VS(blocks[i]) :
          LET h == Ancestry(ancestries, v)
          IN  \E n \in 1..Len(h) :
                  /\ h[n] = blocks[i].idx
                  /\ blocks[i].parent = IF n = 1 THEN None ELSE h[n - 1]

\* A component of three or more members with one common ancestor that is not
\* block 0 is pending.
C9_Witness ==
    /\ Pending
    /\ Len(PendingComponent) >= 3
    /\ LastEntries(PendingComponent) \cap {None, 0} = {}
    /\ \A v \in Range(PendingComponent) : Ancestry(ancestries, v) /= <<>>

\* C10 (ancestry history): while and after the components are processed, the
\* history of every vertex is the list of the ids of the blocks created so
\* far that contain it, with strictly increasing ids and block levels; no
\* block is its own parent and a parent id is smaller than the child's id.
C10_AncestryHistory ==
    pc \in {"blocks", "returned", "done"} =>
        /\ \A v \in Vertices(g) \cup DOMAIN ancestries :
              LET h == Ancestry(ancestries, v)
              IN  /\ h = IdsContaining(blocks, v)
                  /\ \A n \in 1..(Len(h) - 1) :
                        /\ h[n] < h[n + 1]
                        /\ blocks[h[n] + 1].klevel < blocks[h[n + 1] + 1].klevel
        /\ \A i \in BlockIds :
              /\ blocks[i].parent /= blocks[i].idx
              /\ blocks[i].parent /= None => blocks[i].parent < blocks[i].idx

\* Some vertex has a history of three blocks while components are processed.
C10_Witness ==
    /\ pc = "blocks"
    /\ \E v \in DOMAIN ancestries : Len(ancestries[v]) >= 3

====
